---- MODULE Spec2Model ----
(***************************************************************************)
(* PybberLink (pybberlink/main.py): text -> Reed-Solomon frame -> six     *)
(* simultaneous tones per 3-byte symbol -> FFT-bin detection -> frame ->   *)
(* text.  One call of encode_text_to_signal and one call of               *)
(* decode_signal_to_text are one action each; the channel between them     *)
(* may replace frame bytes or append samples.                              *)
(*                                                                         *)
(* Numbers: frequencies are kept in eighths of a hertz so that             *)
(* dF = 46.875 Hz is the integer 375; a byte is 0..255; a text is a        *)
(* sequence of Unicode code points.                                        *)
(***************************************************************************)
EXTENDS Integers, Sequences, FiniteSets, TLC

\* ---------------------------------------------------------------- bounds
\* Longest input text, in code points.
MaxTextLen == 2
\* Most frame bytes the channel replaces where it may exceed the code's reach.
MaxFlips == 3

\* ------------------------------------------- protocol parameters (main.py 5-14)
F0_normal == 1875
F0_ultra == 15000
\* 46.875 Hz, in eighths of a hertz
dF == 375
tones_per_nibble == 16
parallel_tones == 6
sample_rate == 48000
symbol_duration == 1024
rs_ecc_bytes == 4
\* the default of decode_signal_to_text's rs_encoded_length (Python None)
None == -1
\* reedsolo.RSCodec defaults: codeword size and the primitive polynomial 0x11d
nsize == 255
prim == 285

\* ------------------------------------------------------------ sequences
RECURSIVE Concat(_)
Concat(ss) ==
  IF Len(ss) = 0 THEN <<>> ELSE Head(ss) \o Concat(Tail(ss))

Min(a, b) == IF a < b THEN a ELSE b
Max(a, b) == IF a > b THEN a ELSE b

\* Python s[:n] for n >= 0
Take(s, n) == SubSeq(s, 1, Min(n, Len(s)))
\* Python s[n:] for n >= 0
Drop(s, n) == SubSeq(s, Min(n, Len(s)) + 1, Len(s))
\* Python s[:-n] for n > 0
DropLast(s, n) == SubSeq(s, 1, Max(Len(s) - n, 0))

Zeros(n) == [i \in 1..n |-> 0]

\* ---------------------------------------------------------------- UTF-8
\* str.encode('utf-8') of one code point
Utf8Char(cp) ==
  IF cp < 128 THEN <<cp>>
  ELSE IF cp < 2048 THEN <<192 + (cp \div 64), 128 + (cp % 64)>>
  ELSE IF cp < 65536 THEN
    <<224 + (cp \div 4096), 128 + ((cp \div 64) % 64), 128 + (cp % 64)>>
  ELSE <<240 + (cp \div 262144), 128 + ((cp \div 4096) % 64),
         128 + ((cp \div 64) % 64), 128 + (cp % 64)>>

Utf8Encode(t) == Concat([i \in 1..Len(t) |-> Utf8Char(t[i])])

IsCont(b) == b >= 128 /\ b <= 191

\* The length of the well-formed UTF-8 sequence that starts b, 0 when the
\* bytes at the head of b are not one (bytes.decode's strict table).
Utf8SeqLen(b) ==
  LET b1 == b[1]
      n == Len(b)
      lo2 == IF b1 = 224 THEN 160 ELSE IF b1 = 240 THEN 144 ELSE 128
      hi2 == IF b1 = 237 THEN 159 ELSE IF b1 = 244 THEN 143 ELSE 191
      ok2 == n >= 2 /\ b[2] >= lo2 /\ b[2] <= hi2
  IN IF b1 < 128 THEN 1
     ELSE IF b1 >= 194 /\ b1 <= 223 THEN (IF ok2 THEN 2 ELSE 0)
     ELSE IF b1 >= 224 /\ b1 <= 239 THEN
       (IF ok2 /\ n >= 3 /\ IsCont(b[3]) THEN 3 ELSE 0)
     ELSE IF b1 >= 240 /\ b1 <= 244 THEN
       (IF ok2 /\ n >= 4 /\ IsCont(b[3]) /\ IsCont(b[4]) THEN 4 ELSE 0)
     ELSE 0

Utf8CodePoint(b, k) ==
  IF k = 1 THEN b[1]
  ELSE IF k = 2 THEN (b[1] - 192) * 64 + (b[2] - 128)
  ELSE IF k = 3 THEN (b[1] - 224) * 4096 + (b[2] - 128) * 64 + (b[3] - 128)
  ELSE (b[1] - 240) * 262144 + (b[2] - 128) * 4096
       + (b[3] - 128) * 64 + (b[4] - 128)

\* bytes.decode('utf-8', errors='ignore'): a byte that starts no well-formed
\* sequence is dropped and decoding goes on with the next byte.
RECURSIVE Utf8DecodeIgnore(_)
Utf8DecodeIgnore(b) ==
  IF Len(b) = 0 THEN <<>>
  ELSE LET k == Utf8SeqLen(b)
       IN IF k = 0 THEN Utf8DecodeIgnore(Tail(b))
          ELSE <<Utf8CodePoint(b, k)>> \o Utf8DecodeIgnore(Drop(b, k))

\* ------------------------------------------- GF(2^8) as reedsolo builds it
RECURSIVE XOR(_, _)
XOR(a, b) ==
  IF a = 0 THEN b
  ELSE IF b = 0 THEN a
  ELSE ((a + b) % 2) + 2 * XOR(a \div 2, b \div 2)

\* gf_mult_noLUT: carry-less product of x and y, reduced by prim
RECURSIVE gf_mult_noLUT(_, _)
gf_mult_noLUT(x, y) ==
  IF y = 0 THEN 0
  ELSE LET x2 == IF 2 * x >= 256 THEN XOR(2 * x, prim) ELSE 2 * x
       IN XOR(IF y % 2 = 1 THEN x ELSE 0, gf_mult_noLUT(x2, y \div 2))

RECURSIVE Pow2NoLUT(_)
Pow2NoLUT(i) ==
  IF i = 0 THEN 1
  ELSE LET h == Pow2NoLUT(i \div 2)
           sq == gf_mult_noLUT(h, h)
       IN IF i % 2 = 1 THEN gf_mult_noLUT(sq, 2) ELSE sq

\* init_tables: gf_exp[i + 1] = 2^i, and its inverse gf_log
gf_exp == [i \in 1..nsize |-> Pow2NoLUT(i - 1)]
gf_log == [x \in 1..255 |-> CHOOSE i \in 0..254 : gf_exp[i + 1] = x]

gf_pow2(i) == gf_exp[(i % 255) + 1]
gf_mul(x, y) ==
  IF x = 0 \/ y = 0 THEN 0 ELSE gf_pow2(gf_log[x] + gf_log[y])
gf_div(x, y) ==
  IF x = 0 THEN 0 ELSE gf_pow2(gf_log[x] + 255 - gf_log[y])

\* p(x) * (x - a), coefficients highest degree first
MulLinear(p, a) ==
  [j \in 1..Len(p) + 1 |->
     XOR(IF j <= Len(p) THEN p[j] ELSE 0,
         IF j > 1 THEN gf_mul(p[j - 1], a) ELSE 0)]

\* rs_generator_poly: the product of (x - 2^i), i < nsym
RECURSIVE rs_generator_poly(_)
rs_generator_poly(nsym) ==
  IF nsym = 0 THEN <<1>>
  ELSE MulLinear(rs_generator_poly(nsym - 1), gf_pow2(nsym - 1))

\* rs_encode_msg: the message followed by the remainder of msg * x^nsym
\* divided by the generator (synthetic division)
RECURSIVE DivStep(_, _, _, _)
DivStep(out, g, i, n) ==
  IF i > n THEN out
  ELSE LET c == out[i]
       IN DivStep([k \in 1..Len(out) |->
                     IF c # 0 /\ k > i /\ k < i + Len(g)
                     THEN XOR(out[k], gf_mul(g[k - i + 1], c))
                     ELSE out[k]],
                  g, i + 1, n)

rs_encode_msg(msg, nsym) ==
  LET out == DivStep(msg \o Zeros(nsym), rs_generator_poly(nsym), 1, Len(msg))
  IN msg \o SubSeq(out, Len(msg) + 1, Len(msg) + nsym)

\* RSCodec(nsym).encode: one codeword per chunk of nsize - nsym message
\* bytes; an empty message has no chunk and encodes to nothing.
RECURSIVE RSEncode(_, _)
RSEncode(data, nsym) ==
  IF Len(data) = 0 THEN <<>>
  ELSE rs_encode_msg(Take(data, nsize - nsym), nsym)
       \o RSEncode(Drop(data, nsize - nsym), nsym)

\* r(x) at x = a, Horner's rule
RECURSIVE gf_poly_eval(_, _, _)
gf_poly_eval(r, a, acc) ==
  IF Len(r) = 0 THEN acc
  ELSE gf_poly_eval(Tail(r), a, XOR(gf_mul(acc, a), Head(r)))

rs_calc_syndromes(r, nsym) ==
  [j \in 1..nsym |-> gf_poly_eval(r, gf_pow2(j - 1), 0)]

\* The byte r[Len(r) - p] is the coefficient of x^p.
FlipAt(r, p, e) == [r EXCEPT ![Len(r) - p] = XOR(@, e)]

\* One wrong byte at x^p explains the syndromes S.
OneError(S, n) ==
  {p \in 0..n - 1 :
     /\ S[1] # 0
     /\ \A j \in 2..Len(S) : S[j] = gf_mul(S[1], gf_pow2(p * (j - 1)))}

\* the two error values at x^p1, x^p2 that S[1], S[2] force
ErrVal1(S, p1, p2) ==
  gf_div(XOR(S[2], gf_mul(S[1], gf_pow2(p2))), XOR(gf_pow2(p1), gf_pow2(p2)))

TwoErrors(S, n) ==
  {pp \in (0..n - 1) \X (0..n - 1) :
     /\ pp[1] < pp[2]
     /\ LET e1 == ErrVal1(S, pp[1], pp[2])
            e2 == XOR(S[1], e1)
        IN /\ e1 # 0
           /\ e2 # 0
           /\ \A j \in 3..Len(S) :
                S[j] = XOR(gf_mul(e1, gf_pow2(pp[1] * (j - 1))),
                           gf_mul(e2, gf_pow2(pp[2] * (j - 1))))}

\* rs_correct_msg for nsym = 4: the codeword within nsym / 2 byte errors of
\* r if there is one (then ok, and msg is its message part), else
\* ReedSolomonError (ok = FALSE).
rs_correct_msg(r, nsym) ==
  LET S == rs_calc_syndromes(r, nsym)
      n == Len(r)
      strip(c) == DropLast(c, nsym)
  IN IF \A j \in 1..nsym : S[j] = 0 THEN [ok |-> TRUE, msg |-> strip(r)]
     ELSE IF OneError(S, n) # {} THEN
       LET p == CHOOSE q \in OneError(S, n) : TRUE
       IN [ok |-> TRUE, msg |-> strip(FlipAt(r, p, S[1]))]
     ELSE IF TwoErrors(S, n) # {} THEN
       LET pp == CHOOSE q \in TwoErrors(S, n) : TRUE
           e1 == ErrVal1(S, pp[1], pp[2])
       IN [ok |-> TRUE,
           msg |-> strip(FlipAt(FlipAt(r, pp[1], e1), pp[2], XOR(S[1], e1)))]
     ELSE [ok |-> FALSE, msg |-> <<>>]

\* RSCodec(nsym).decode(data)[0]: codeword by codeword, nsize bytes each
RECURSIVE RSDecode(_, _)
RSDecode(data, nsym) ==
  IF Len(data) = 0 THEN [ok |-> TRUE, msg |-> <<>>]
  ELSE LET head == rs_correct_msg(Take(data, nsize), nsym)
           rest == RSDecode(Drop(data, nsize), nsym)
       IN [ok |-> head.ok /\ rest.ok, msg |-> head.msg \o rest.msg]

\* ------------------------------------------------------ frequency tables
Bands == 0..parallel_tones - 1
Nibbles == 0..tones_per_nibble - 1

\* A mutant of get_freq_table: the band offset not scaled by
\* tones_per_nibble, so that neighbouring bands overlap.
FreqTableBandsOverlap(ultra) ==
  LET base_freq == IF ultra THEN F0_ultra ELSE F0_normal
  IN [band \in Bands |->
       [nibble \in Nibbles |-> base_freq * 8 + (band + nibble) * dF]]

\* get_freq_table: table[band][nibble], in eighths of a hertz
get_freq_table(ultra) ==
  LET base_freq == IF ultra THEN F0_ultra ELSE F0_normal
  IN [band \in Bands |->
       [nibble \in Nibbles |->
          base_freq * 8 + (band * tones_per_nibble + nibble) * dF]]

\* np.round(num / den) for num >= 0, den > 0: a half goes to the even side
RoundHalfEven(num, den) ==
  LET q == num \div den
      r == num % den
  IN IF 2 * r < den THEN q
     ELSE IF 2 * r > den THEN q + 1
     ELSE IF q % 2 = 0 THEN q ELSE q + 1

\* get_bin_table: reads the module's symbol_duration and sample_rate
get_bin_table(freq_table) ==
  [band \in Bands |->
     [nibble \in Nibbles |->
        RoundHalfEven(freq_table[band][nibble] * symbol_duration,
                      sample_rate * 8)]]

\* ------------------------------------------------------------- the encoder
\* A mutant of PadLen: the outer "% 3" forgotten.
PadLenNoWrap(n) == 3 - (n % 3)

\* pad_len = (3 - (len(data_with_ecc) % 3)) % 3
PadLen(n) == (3 - (n % 3)) % 3

\* the six nibbles of a 3-byte chunk; band b carries Nibbles6(chunk)[b + 1]
Nibbles6(chunk) ==
  <<(chunk[1] \div 16) % 16, chunk[1] % 16,
    (chunk[2] \div 16) % 16, chunk[2] % 16,
    (chunk[3] \div 16) % 16, chunk[3] % 16>>

\* A mutant of SymbolSamples: the module's symbol_duration instead of the
\* call's.
SymbolSamplesOfModule(c) == symbol_duration

\* the number of points of the time axis t of one symbol
SymbolSamples(c) == c.symbol_duration

\* One symbol_wave: the sum of six unit sines, kept as the six frequencies,
\* the number of samples and the sampling rate of the time axis.
SymbolWave(chunk, freq_table, c) ==
  [freqs |-> [b \in 1..parallel_tones |->
                freq_table[b - 1][Nibbles6(chunk)[b]]],
   n |-> SymbolSamples(c),
   rate |-> c.sample_rate]

\* rs.encode(text.encode('utf-8'))
DataWithEcc(t, nsym) == RSEncode(Utf8Encode(t), nsym)

\* data_with_ecc after padding
EncodeFrame(t, nsym) ==
  DataWithEcc(t, nsym) \o Zeros(PadLen(Len(DataWithEcc(t, nsym))))

\* signal_chunks of a padded frame
SignalChunks(fr, ultra, c) ==
  [i \in 1..(Len(fr) \div 3) |->
     SymbolWave(SubSeq(fr, 3 * i - 2, 3 * i), get_freq_table(ultra), c)]

\* ------------------------------------------------------------- the signal
\* A signal is its symbols in order followed by `silence` zero samples.
RECURSIVE SumSamples(_)
SumSamples(blocks) ==
  IF Len(blocks) = 0 THEN 0 ELSE Head(blocks).n + SumSamples(Tail(blocks))

SignalLen(sig) == SumSamples(sig.symbols) + sig.silence

SilentBlock(c) == [freqs |-> <<>>, n |-> c.symbol_duration, rate |-> c.sample_rate]

\* The rfft bin that holds a sine of frequency f (eighths of a hertz)
\* sampled at `rate` over sd samples, -1 if it falls between two bins or is
\* sampled at its zeros (0 or the Nyquist frequency).  A frequency above
\* rate / 2 appears mirrored.
ToneBin(f, rate, sd) ==
  IF (f * sd) % (rate * 8) # 0 THEN -1
  ELSE LET p == ((f * sd) \div (rate * 8)) % sd
       IN IF p = 0 \/ 2 * p = sd THEN -1
          ELSE IF 2 * p < sd THEN p ELSE sd - p

\* magnitudes[block, bin], in units of one tone's peak: every tone puts its
\* peak in its own bin and nothing elsewhere.
Magnitude(block, bin, sd) ==
  Cardinality({b \in 1..Len(block.freqs) :
                 ToneBin(block.freqs[b], block.rate, sd) = bin})

\* ------------------------------------------------------------- the decoder
\* magnitudes.shape[1] of an rfft over sd samples
SpectrumLen(sd) == (sd \div 2) + 1

\* candidate_mags[block, :] of one band
CandidateMags(block, band, bins, sd) ==
  [nibble \in Nibbles |->
     IF bins[band][nibble] < SpectrumLen(sd)
     THEN Magnitude(block, bins[band][nibble], sd)
     ELSE 0]

\* np.argmax: the first index that holds the maximum
RECURSIVE ArgmaxFrom(_, _, _)
ArgmaxFrom(c, i, best) ==
  IF i > tones_per_nibble - 1 THEN best
  ELSE ArgmaxFrom(c, i + 1, IF c[i] > c[best] THEN i ELSE best)

\* A mutant of Argmax: the last index that holds the maximum.
RECURSIVE ArgmaxLastFrom(_, _, _)
ArgmaxLastFrom(c, i, best) ==
  IF i > tones_per_nibble - 1 THEN best
  ELSE ArgmaxLastFrom(c, i + 1, IF c[i] >= c[best] THEN i ELSE best)

ArgmaxLast(c) == ArgmaxLastFrom(c, 1, 0)

Argmax(c) == ArgmaxFrom(c, 1, 0)

\* the symbols the decoder reshapes the signal into
Blocks(sig, c) ==
  LET n_symbols == SignalLen(sig) \div c.symbol_duration
  IN [i \in 1..n_symbols |->
        IF i <= Len(sig.symbols) THEN sig.symbols[i] ELSE SilentBlock(c)]

DetectNibbles(sig, bins, c) ==
  LET blocks == Blocks(sig, c)
  IN [i \in 1..Len(blocks) |->
        [b \in 1..parallel_tones |->
           Argmax(CandidateMags(blocks[i], b - 1, bins, c.symbol_duration))]]

\* byte1 = (row[0] << 4) | row[1], ...
RowBytes(row) ==
  <<row[1] * 16 + row[2], row[3] * 16 + row[4], row[5] * 16 + row[6]>>

Reconstruct(matrix) == Concat([i \in 1..Len(matrix) |-> RowBytes(matrix[i])])

\* if pad_bytes: reconstructed = reconstructed[:-pad_bytes]
RemovePadding(rec, pad_bytes) ==
  IF pad_bytes # 0 THEN DropLast(rec, pad_bytes) ELSE rec

\* if rs_encoded_length is not None and len(reconstructed) > rs_encoded_length
ClampLength(rec, length) ==
  IF length # None /\ Len(rec) > length THEN Take(rec, length) ELSE rec

\* ------------------------------------------------------------------ state
VARIABLES
  pc,                \* "start", "signal" (a signal awaits decoding),
                     \* "encode_error" (encode_text_to_signal raised), "done"
  text,              \* the input text, a sequence of code points
  ultrasonic,        \* the mode flag given to both calls
  cfg,               \* sample_rate and symbol_duration given to both calls
  frame,             \* the encoder's data_with_ecc after padding
  pad_len,           \* returned by the encoder, pad_bytes of the decoder
  rs_encoded_length, \* returned by the encoder, given to the decoder
  full_signal,       \* the signal in flight
  flipped,           \* frame positions whose byte the channel replaced
  bin_table,         \* the decoder's bin_table
  nibble_matrix,     \* the decoder's nibble_matrix
  rs_error,          \* the decoder caught ReedSolomonError
  decoded            \* the text the decoder returned

vars == <<pc, text, ultrasonic, cfg, frame, pad_len, rs_encoded_length,
          full_signal, flipped, bin_table, nibble_matrix, rs_error, decoded>>

\* ----------------------------------------------------------------- inputs
CodePoints == {65, 233, 8364, 128512}
NoisyCodePoints == {65, 233}

TextsOver(cps) == UNION {[1..n -> cps] : n \in 0..MaxTextLen}

DefaultConfig == [sample_rate |-> sample_rate, symbol_duration |-> symbol_duration]
Configs ==
  {DefaultConfig,
   [sample_rate |-> 48000, symbol_duration |-> 2048],
   [sample_rate |-> 24000, symbol_duration |-> 1024],
   [sample_rate |-> 96000, symbol_duration |-> 2048]}
DetectConfigs ==
  {DefaultConfig, [sample_rate |-> 48000, symbol_duration |-> 128]}

\* values the channel may put in place of byte b
CorruptValues(b) == {255 - b, (b + 1) % 256}
\* samples of silence the channel may append
ExtraSamples(c) ==
  {1, c.symbol_duration - 1, c.symbol_duration, c.symbol_duration + 1,
   2 * c.symbol_duration}
\* tones of a captured block, as multiples of the bin width
TestBins == {40, 41, 55, 56, 64, 70}
TestTones == UNION {[1..n -> TestBins] : n \in 0..2}

NoSignal == [symbols |-> <<>>, silence |-> 0]

InitWith(texts, configs) ==
  /\ pc = "start"
  /\ text \in texts
  /\ ultrasonic \in BOOLEAN
  /\ cfg \in configs
  /\ frame = <<>>
  /\ pad_len = 0
  /\ rs_encoded_length = None
  /\ full_signal = NoSignal
  /\ flipped = {}
  /\ bin_table = <<>>
  /\ nibble_matrix = <<>>
  /\ rs_error = FALSE
  /\ decoded = <<>>

Init == InitWith(TextsOver(CodePoints), {DefaultConfig})

\* ---------------------------------------------------------------- actions
\* encode_text_to_signal(text, ultrasonic, sample_rate, symbol_duration);
\* np.concatenate raises ValueError when there is no chunk to concatenate,
\* and then nothing is returned.
Encode ==
  /\ pc = "start"
  /\ LET fr == EncodeFrame(text, rs_ecc_bytes)
         signal_chunks == SignalChunks(fr, ultrasonic, cfg)
     IN /\ frame' = fr
        /\ IF Len(signal_chunks) = 0
           THEN /\ pc' = "encode_error"
                /\ UNCHANGED <<pad_len, rs_encoded_length, full_signal>>
           ELSE /\ pc' = "signal"
                /\ full_signal' = [symbols |-> signal_chunks, silence |-> 0]
                /\ pad_len' = PadLen(Len(DataWithEcc(text, rs_ecc_bytes)))
                /\ rs_encoded_length' = Len(fr)
  /\ UNCHANGED <<text, ultrasonic, cfg, flipped, bin_table, nibble_matrix,
                 rs_error, decoded>>

\* The symbol `block` with byte j (1..3) of its chunk replaced by v.
WithByte(block, j, v, freq_table) ==
  [block EXCEPT !.freqs = [@ EXCEPT ![2 * j - 1] = freq_table[2 * j - 2][v \div 16],
                                    ![2 * j] = freq_table[2 * j - 1][v % 16]]]

\* The channel replaces byte i of the transmitted frame by another value:
\* the symbol that carries it sounds the tones of the new nibbles.
Corrupt(limit) ==
  /\ pc = "signal"
  /\ Cardinality(flipped) < limit
  /\ \E i \in (1..Len(frame)) \ flipped :
       \E v \in CorruptValues(frame[i]) :
         LET s == ((i - 1) \div 3) + 1
             j == ((i - 1) % 3) + 1
         IN /\ full_signal' =
                 [full_signal EXCEPT !.symbols[s] =
                    WithByte(@, j, v, get_freq_table(ultrasonic))]
            /\ flipped' = flipped \cup {i}
  /\ UNCHANGED <<pc, text, ultrasonic, cfg, frame, pad_len, rs_encoded_length,
                 bin_table, nibble_matrix, rs_error, decoded>>

\* The capture runs on after the last symbol: k samples of silence follow.
Extend ==
  /\ pc = "signal"
  /\ full_signal.silence = 0
  /\ \E k \in ExtraSamples(cfg) :
       full_signal' = [full_signal EXCEPT !.silence = k]
  /\ UNCHANGED <<pc, text, ultrasonic, cfg, frame, pad_len, rs_encoded_length,
                 flipped, bin_table, nibble_matrix, rs_error, decoded>>

\* A signal that did not come from the encoder: one block of up to two tones,
\* handed to the decoder with its default pad_bytes and rs_encoded_length.
Capture ==
  /\ pc = "start"
  /\ \E tones \in TestTones :
       full_signal' =
         [symbols |->
            <<[freqs |-> [b \in 1..Len(tones) |->
                            tones[b] * ((cfg.sample_rate * 8)
                                        \div cfg.symbol_duration)],
               n |-> cfg.symbol_duration,
               rate |-> cfg.sample_rate]>>,
          silence |-> 0]
  /\ pc' = "signal"
  /\ UNCHANGED <<text, ultrasonic, cfg, frame, pad_len, rs_encoded_length,
                 flipped, bin_table, nibble_matrix, rs_error, decoded>>

\* decode_signal_to_text(full_signal, pad_len, rs_encoded_length, ultrasonic,
\* sample_rate, symbol_duration).  On ReedSolomonError the function reports
\* on standard output and goes on with the bytes as they are.
Decode ==
  /\ pc = "signal"
  /\ \E bins \in {get_bin_table(get_freq_table(ultrasonic))} :
     \E matrix \in {DetectNibbles(full_signal, bins, cfg)} :
     \E reconstructed \in
          {ClampLength(RemovePadding(Reconstruct(matrix), pad_len),
                       rs_encoded_length)} :
     \E rs \in {RSDecode(reconstructed, rs_ecc_bytes)} :
     \E decoded_data \in {IF rs.ok THEN rs.msg ELSE reconstructed} :
       /\ bin_table' = bins
       /\ nibble_matrix' = matrix
       /\ rs_error' = ~rs.ok
       /\ decoded' = Utf8DecodeIgnore(decoded_data)
  /\ pc' = "done"
  /\ UNCHANGED <<text, ultrasonic, cfg, frame, pad_len, rs_encoded_length,
                 full_signal, flipped>>

\* -------------------------------------------------------- specifications
\* a noiseless round trip with the default parameters
Next == Encode \/ Decode
Spec == Init /\ [][Next]_vars

\* a noiseless round trip with sample_rate and symbol_duration given per call
InitCfg == InitWith(TextsOver(CodePoints), Configs)
SpecCfg == InitCfg /\ [][Next]_vars

\* the channel replaces up to rs_ecc_bytes / 2 bytes of the frame
InitNoisy == InitWith(TextsOver(NoisyCodePoints), {DefaultConfig})
NextErr == Encode \/ Corrupt(rs_ecc_bytes \div 2) \/ Decode
SpecErr == InitNoisy /\ [][NextErr]_vars

\* the channel replaces up to MaxFlips bytes of the frame
NextFail == Encode \/ Corrupt(MaxFlips) \/ Decode
SpecFail == InitNoisy /\ [][NextFail]_vars

\* the channel appends silence
NextExt == Encode \/ Extend \/ Decode
SpecExt == Init /\ [][NextExt]_vars

\* the decoder alone, on captured blocks
InitDetect == InitWith({<<>>}, DetectConfigs)
NextDetect == Capture \/ Decode
SpecDetect == InitDetect /\ [][NextDetect]_vars

\* ------------------------------------------------------------------ claims
Returned == pc \in {"signal", "done"}

\* the nibble that band b (1..6) of symbol i carries for frame fr
FrameNibble(fr, i, b) ==
  LET byte == fr[3 * (i - 1) + ((b + 1) \div 2)]
  IN IF b % 2 = 1 THEN byte \div 16 ELSE byte % 16

\* C1: a noiseless round trip with the default parameters returns the input
\* text, for every text: the encoder returns a signal and the decoder, given
\* that signal with the returned pad length and frame length, returns T.
C1_RoundTrip ==
  /\ pc # "encode_error"
  /\ pc = "done" => decoded = text

\* The round trip of every text the encoder accepts (not a claim's formula).
RoundTripWhenEncoded == pc = "done" => decoded = text

C3_EmptyText ==
  text = <<>> =>
    /\ pc # "encode_error"
    /\ Returned => /\ rs_encoded_length > 0
                   /\ Len(frame) = rs_ecc_bytes + pad_len
                   /\ SignalLen(full_signal) > 0
    /\ pc = "done" => decoded = <<>>

\* C4: with at most rs_ecc_bytes / 2 bytes of the transmitted frame replaced,
\* the decoder still returns the input text, for every text.
C4_Tolerance ==
  Cardinality(flipped) <= rs_ecc_bytes \div 2 =>
    /\ pc # "encode_error"
    /\ pc = "done" => decoded = text

\* The same for every text the encoder accepts (not a claim's formula).
ToleranceWhenEncoded ==
  (pc = "done" /\ Cardinality(flipped) <= rs_ecc_bytes \div 2) => decoded = text

\* What a decode without ReedSolomonError returns: the text that was sent.
SuccessfulResults == TextsOver(CodePoints) \ {<<>>}

\* C5: when the RS decode fails, what the decoder returns can be told from
\* what a successful decode returns.
C5_FailureDistinguishable ==
  (pc = "done" /\ rs_error) => decoded \notin SuccessfulResults

\* C6: in either mode the 96 bins of the decoder's table are pairwise
\* distinct and each is below the spectrum length symbol_duration / 2 + 1.
C6_BinsDistinct ==
  pc = "done" =>
    /\ \A b1, b2 \in Bands : \A n1, n2 \in Nibbles :
         bin_table[b1][n1] = bin_table[b2][n2] => b1 = b2 /\ n1 = n2
    /\ \A b \in Bands : \A n \in Nibbles :
         bin_table[b][n] < (symbol_duration \div 2) + 1

C6_Witness ==
  /\ pc = "done"
  /\ ultrasonic
  /\ bin_table[0][0] = 320
  /\ bin_table[5][15] = 415

\* C7: the returned signal is one block of symbolDuration samples per 3-byte
\* window of the frame, in frame order, and nothing between or after them:
\* (frameLength / 3) * symbolDuration samples.
C7_SignalLength ==
  Returned =>
    LET base == IF ultrasonic THEN F0_ultra ELSE F0_normal
    IN /\ full_signal.silence = 0
       /\ SignalLen(full_signal) = (rs_encoded_length \div 3) * cfg.symbol_duration
       /\ Len(full_signal.symbols) = Len(frame) \div 3
       /\ \A i \in 1..Len(full_signal.symbols) :
            /\ full_signal.symbols[i].n = cfg.symbol_duration
            /\ \A b \in 1..parallel_tones :
                 full_signal.symbols[i].freqs[b] =
                   base * 8 + ((b - 1) * 16 + FrameNibble(frame, i, b)) * dF

C7_Witness ==
  /\ pc = "signal"
  /\ cfg.symbol_duration = 2048
  /\ Len(full_signal.symbols) = 4
  /\ SignalLen(full_signal) = 8192

\* C8: the decoder's bin table is round(freq * symbolDuration / sampleRate)
\* for the symbolDuration and sampleRate of the call, so that a round trip
\* with the same overrides on both sides detects the transmitted nibbles.
C8_BinTableOfCall ==
  pc = "done" =>
    /\ \A b \in Bands : \A n \in Nibbles :
         bin_table[b][n] =
           RoundHalfEven(get_freq_table(ultrasonic)[b][n] * cfg.symbol_duration,
                         cfg.sample_rate * 8)
    /\ \A i \in 1..Len(nibble_matrix) : \A b \in 1..parallel_tones :
         nibble_matrix[i][b] = FrameNibble(frame, i, b)

\* C9: the detected nibble of every block and band is the lowest nibble whose
\* candidate magnitude is the largest of the band's 16, a candidate whose bin
\* is not below the spectrum length counting 0; so a nibble whose bin is out
\* of range is detected only if all 16 are, and then it is nibble 0.
C9_Detection ==
  pc = "done" =>
    LET sd == cfg.symbol_duration
        blocks == Blocks(full_signal, cfg)
        InRange(b, n) == bin_table[b][n] < (sd \div 2) + 1
        cand(i, b, n) ==
          IF InRange(b, n) THEN Magnitude(blocks[i], bin_table[b][n], sd) ELSE 0
    IN /\ Len(nibble_matrix) = Len(blocks)
       /\ \A i \in 1..Len(blocks) : \A b \in Bands :
            LET d == nibble_matrix[i][b + 1]
            IN /\ d \in Nibbles
               /\ \A n \in Nibbles : cand(i, b, n) <= cand(i, b, d)
               /\ \A n \in Nibbles : n < d => cand(i, b, n) < cand(i, b, d)
               /\ ~InRange(b, d) => d = 0 /\ \A n \in Nibbles : ~InRange(b, n)

C9_Witness ==
  /\ pc = "done"
  /\ cfg.symbol_duration = 128
  /\ bin_table[1][15] >= 65
  /\ nibble_matrix[1][1] = 1
  /\ nibble_matrix[1][2] = 2
  /\ nibble_matrix[1][3] = 0

\* C10: with any number of trailing samples appended to the encoder's signal,
\* the decoder, given the encoder's pad length and frame length, still
\* returns the input text.
C10_OverlongSignal == pc = "done" => decoded = text
====
